---- MODULE Spec2Model ----
(***************************************************************************)
(* Model of WebStore::get_transactions and WebStore::apply_transaction     *)
(* (crates/rust-client/src/store/web_store/transaction/mod.rs).            *)
(*                                                                         *)
(* Both are async functions running on a single-threaded cooperative       *)
(* executor: every `.await` is a suspension point, so each action below is *)
(* the code that runs between two suspension points.  The IndexedDB side   *)
(* and the account / note / tag helpers are collaborators: each awaited    *)
(* call either resolves successfully or fails.                             *)
(***************************************************************************)
EXTENDS Integers, Sequences, FiniteSets, TLC

VARIABLES
    tx_update,      \* the TransactionStoreUpdate handed to apply_transaction
    apply_pc,       \* the await apply_transaction is suspended at
    tag_idx,        \* position of the `for tag_record in new_tags()` loop
    calls,          \* collaborator calls issued so far, in issue order
    acks,           \* the collaborators' answers to the calls, in order
    apply_result,   \* what apply_transaction returned
    filter,         \* the TransactionFilter handed to get_transactions
    get_pc,         \* the await get_transactions is suspended at, or how it ended
    idxdb_calls,    \* tokens passed to idxdb_get_transactions, in order
    js_value,       \* what the IndexedDB promise resolved to
    get_result      \* what get_transactions returned

apply_vars == <<tx_update, apply_pc, tag_idx, calls, acks, apply_result>>
get_vars == <<filter, get_pc, idxdb_calls, js_value, get_result>>
vars == <<tx_update, apply_pc, tag_idx, calls, acks, apply_result,
          filter, get_pc, idxdb_calls, js_value, get_result>>

None == <<>>
Some(v) == <<v>>

\* ------------------------------------------------------------------------
\* Bounds
\* ------------------------------------------------------------------------
MaxTags == 2          \* longest new_tags() list
MaxRows == 2          \* longest batch returned by one scan
MaxDeviations == 2    \* fields in which the rows of a batch may differ from BaseRow
MaxIds == 2           \* longest id list of TransactionFilter::Ids

NoteTags == {"tag_a", "tag_b", "tag_c"}

\* ------------------------------------------------------------------------
\* apply_transaction
\* ------------------------------------------------------------------------
TagLists == UNION {[1..n -> NoteTags] : n \in 0..MaxTags}

TransactionStoreUpdates ==
    {[executed_transaction |-> "executed_transaction",
      updated_account |-> "updated_account",
      note_updates |-> "note_updates",
      new_tags |-> tags] : tags \in TagLists}

Call(op, arg) == [op |-> op, arg |-> arg]

Ok == [kind |-> "Ok", val |-> <<>>]
Err == [kind |-> "Err", val |-> <<>>]
Panic == [kind |-> "panic", val |-> <<>>]
NoResult == [kind |-> "none", val |-> <<>>]

\* the first two steps issued together, the first one not awaited
apply_transaction_not_awaited ==
    /\ apply_pc = "idle"
    /\ calls' = calls \o <<Call("insert_proven_transaction_data",
                                 tx_update.executed_transaction),
                            Call("update_account", tx_update.updated_account)>>
    /\ apply_pc' = "insert_proven_transaction_data"
    /\ UNCHANGED <<tx_update, tag_idx, acks, apply_result>>
    /\ UNCHANGED get_vars

\* line 115, up to the first await
apply_transaction ==
    /\ apply_pc = "idle"
    /\ calls' = Append(calls, Call("insert_proven_transaction_data",
                                   tx_update.executed_transaction))
    /\ apply_pc' = "insert_proven_transaction_data"
    /\ UNCHANGED <<tx_update, tag_idx, acks, apply_result>>
    /\ UNCHANGED get_vars

\* the `?` of an awaited step: the error is returned, nothing else runs
ReturnErr ==
    /\ apply_result' = Err
    /\ apply_pc' = "returned"
    /\ UNCHANGED <<tx_update, tag_idx, calls>>
    /\ UNCHANGED get_vars

\* the loop stopping one tag early
TagLoopFrom_skip_last(i) ==
    IF i < Len(tx_update.new_tags)
    THEN /\ calls' = Append(calls, Call("add_note_tag", tx_update.new_tags[i]))
         /\ tag_idx' = i
         /\ apply_pc' = "add_note_tag"
         /\ UNCHANGED apply_result
    ELSE /\ apply_result' = Ok
         /\ apply_pc' = "returned"
         /\ UNCHANGED <<calls, tag_idx>>

\* lines 125-129 from loop position i: register the next tag or return Ok
TagLoopFrom(i) ==
    IF i <= Len(tx_update.new_tags)
    THEN /\ calls' = Append(calls, Call("add_note_tag", tx_update.new_tags[i]))
         /\ tag_idx' = i
         /\ apply_pc' = "add_note_tag"
         /\ UNCHANGED apply_result
    ELSE /\ apply_result' = Ok
         /\ apply_pc' = "returned"
         /\ UNCHANGED <<calls, tag_idx>>

insert_proven_transaction_data_ok ==
    /\ apply_pc = "insert_proven_transaction_data"
    /\ acks' = Append(acks, "Ok")
    /\ calls' = Append(calls, Call("update_account", tx_update.updated_account))
    /\ apply_pc' = "update_account"
    /\ UNCHANGED <<tx_update, tag_idx, apply_result>>
    /\ UNCHANGED get_vars

insert_proven_transaction_data_err ==
    /\ apply_pc = "insert_proven_transaction_data"
    /\ acks' = Append(acks, "Err")
    /\ ReturnErr

update_account_ok ==
    /\ apply_pc = "update_account"
    /\ acks' = Append(acks, "Ok")
    /\ calls' = Append(calls, Call("apply_note_updates_tx", tx_update.note_updates))
    /\ apply_pc' = "apply_note_updates_tx"
    /\ UNCHANGED <<tx_update, tag_idx, apply_result>>
    /\ UNCHANGED get_vars

\* the account error dropped, the next step issued all the same
update_account_err_ignored ==
    /\ apply_pc = "update_account"
    /\ acks' = Append(acks, "Err")
    /\ calls' = Append(calls, Call("apply_note_updates_tx", tx_update.note_updates))
    /\ apply_pc' = "apply_note_updates_tx"
    /\ UNCHANGED <<tx_update, tag_idx, apply_result>>
    /\ UNCHANGED get_vars

\* lines 118-120: the error is wrapped into StoreError::DatabaseError
update_account_err ==
    /\ apply_pc = "update_account"
    /\ acks' = Append(acks, "Err")
    /\ ReturnErr

apply_note_updates_tx_ok ==
    /\ apply_pc = "apply_note_updates_tx"
    /\ acks' = Append(acks, "Ok")
    /\ TagLoopFrom(1)
    /\ UNCHANGED tx_update
    /\ UNCHANGED get_vars

apply_note_updates_tx_err ==
    /\ apply_pc = "apply_note_updates_tx"
    /\ acks' = Append(acks, "Err")
    /\ ReturnErr

add_note_tag_ok ==
    /\ apply_pc = "add_note_tag"
    /\ acks' = Append(acks, "Ok")
    /\ TagLoopFrom(tag_idx + 1)
    /\ UNCHANGED tx_update
    /\ UNCHANGED get_vars

\* a failed tag registration skipped, the loop going on
add_note_tag_err_skipped ==
    /\ apply_pc = "add_note_tag"
    /\ acks' = Append(acks, "Err")
    /\ TagLoopFrom(tag_idx + 1)
    /\ UNCHANGED tx_update
    /\ UNCHANGED get_vars

add_note_tag_err ==
    /\ apply_pc = "add_note_tag"
    /\ acks' = Append(acks, "Err")
    /\ ReturnErr

\* ------------------------------------------------------------------------
\* get_transactions: filter token (lines 36-47)
\* ------------------------------------------------------------------------
\* u32::MAX as decimal text
U32MaxText == <<"4", "2", "9", "4", "9", "6", "7", "2", "9", "5">>

DecDigits == <<"0", "1", "2", "3", "4", "5", "6", "7", "8", "9">>
HexDigits == DecDigits \o <<"a", "b", "c", "d", "e", "f">>

RECURSIVE DecimalText(_)
\* Display of a u32: decimal digits, most significant first, no padding
DecimalText(n) ==
    IF n < 10 THEN <<DecDigits[n + 1]>>
    ELSE Append(DecimalText(n \div 10), DecDigits[(n % 10) + 1])

RECURSIVE HexText(_)
\* two lowercase hex digits per byte, in byte order
HexText(bytes) ==
    IF bytes = <<>> THEN <<>>
    ELSE <<HexDigits[(Head(bytes) \div 16) + 1], HexDigits[(Head(bytes) % 16) + 1]>>
         \o HexText(Tail(bytes))

\* ToString::to_string of a transaction id: "0x" and the hex of its bytes
IdToString(id) == <<"0", "x">> \o HexText(id)

RECURSIVE Join_reversed(_, _)
\* the texts joined last to first
Join_reversed(strs, sep) ==
    IF strs = <<>> THEN <<>>
    ELSE IF Len(strs) = 1 THEN strs[1]
    ELSE Join_reversed(Tail(strs), sep) \o sep \o strs[1]

RECURSIVE Join(_, _)
\* [String]::join(sep)
Join(strs, sep) ==
    IF strs = <<>> THEN <<>>
    ELSE IF Len(strs) = 1 THEN strs[1]
    ELSE strs[1] \o sep \o Join(Tail(strs), sep)

filter_as_str(f) ==
    CASE f.variant = "All" -> <<"A", "l", "l">>
      [] f.variant = "Uncomitted" ->
            <<"U", "n", "c", "o", "m", "i", "t", "t", "e", "d">>
      [] f.variant = "Ids" ->
            <<"I", "d", "s", ":">>
            \o Join([i \in 1..Len(f.ids) |-> IdToString(f.ids[i])], <<",">>)
      [] f.variant = "ExpiredBefore" ->
            <<"E", "x", "p", "i", "r", "e", "d", "P", "e", "n", "d", "i", "n", "g", ":">>
            \o DecimalText(f.block_number)

\* ------------------------------------------------------------------------
\* get_transactions: one row (lines 58-104)
\* ------------------------------------------------------------------------
OkOf(v) == [kind |-> "Ok", val |-> <<v>>]

IsDigit(c) == \E d \in 1..10 : DecDigits[d] = c
DigitValue(c) == (CHOOSE d \in 1..10 : DecDigits[d] = c) - 1

RECURSIVE StripZeros(_)
StripZeros(s) ==
    IF s # <<>> /\ Head(s) = "0" THEN StripZeros(Tail(s)) ELSE s

RECURSIVE DigitsLeq(_, _)
\* s <= t for digit strings of one length
DigitsLeq(s, t) ==
    IF s = <<>> THEN TRUE
    ELSE IF DigitValue(Head(s)) # DigitValue(Head(t))
         THEN DigitValue(Head(s)) < DigitValue(Head(t))
         ELSE DigitsLeq(Tail(s), Tail(t))

\* the digit string denotes a value of at most u32::MAX
FitsU32(s) ==
    LET t == StripZeros(s)
    IN \/ Len(t) < Len(U32MaxText)
       \/ Len(t) = Len(U32MaxText) /\ DigitsLeq(t, U32MaxText)

RECURSIVE DigitsValue(_, _)
DigitsValue(s, acc) ==
    IF s = <<>> THEN acc ELSE DigitsValue(Tail(s), acc * 10 + DigitValue(Head(s)))

\* str::parse::<u32>: an optional '+', then one or more decimal digits whose
\* value fits 32 bits; anything else is an error
ParseU32(s) ==
    LET body == IF s # <<>> /\ Head(s) = "+" THEN Tail(s) ELSE s
    IN IF body = <<>> THEN Err
       ELSE IF \E i \in 1..Len(body) : ~IsDigit(body[i]) THEN Err
       ELSE IF ~FitsU32(body) THEN Err
       ELSE OkOf(DigitsValue(body, 0))

\* the decoders of the byte / text encodings: defined on the well-formed
\* encodings only
WellFormed ==
    [account_id |-> {"0xa11ce"},
     digest |-> {"0xd16e57"},
     nullifiers |-> {"nullifier_bytes"},
     output_notes |-> {"output_note_bytes"},
     script |-> {"script_bytes"}]

Decode(type, raw) ==
    IF raw \in WellFormed[type] THEN OkOf([type |-> type, of |-> raw]) ELSE Err

\* the match arms in the other order: a commit height wins over the flag
TransactionStatusOf_committed_first(commit_height, discarded) ==
    IF commit_height # None
    THEN [variant |-> "Committed", height |-> commit_height]
    ELSE IF discarded THEN [variant |-> "Discarded", height |-> None]
         ELSE [variant |-> "Pending", height |-> None]

\* lines 87-91
TransactionStatusOf(commit_height, discarded) ==
    IF discarded THEN [variant |-> "Discarded", height |-> None]
    ELSE IF commit_height # None
         THEN [variant |-> "Committed", height |-> commit_height]
         ELSE [variant |-> "Pending", height |-> None]

\* missing script bytes taken as "no script"
TransactionScriptOf_missing_is_none(tx_idxdb) ==
    IF tx_idxdb.script_root # None /\ tx_idxdb.tx_script # None
    THEN LET script == Decode("script", tx_idxdb.tx_script[1])
         IN IF script.kind = "Err" THEN Err ELSE OkOf(Some(script.val[1]))
    ELSE OkOf(None)

\* the script bytes decoded whether or not a script root is recorded
TransactionScriptOf_root_unchecked(tx_idxdb) ==
    IF tx_idxdb.tx_script = None
    THEN IF tx_idxdb.script_root # None THEN Panic ELSE OkOf(None)
    ELSE LET script == Decode("script", tx_idxdb.tx_script[1])
         IN IF script.kind = "Err" THEN Err ELSE OkOf(Some(script.val[1]))

\* lines 74-85
TransactionScriptOf(tx_idxdb) ==
    IF tx_idxdb.script_root # None
    THEN IF tx_idxdb.tx_script = None THEN Panic
         ELSE LET script == Decode("script", tx_idxdb.tx_script[1])
              IN IF script.kind = "Err" THEN Err ELSE OkOf(Some(script.val[1]))
    ELSE OkOf(None)

Reconstruct(tx_idxdb) ==
    LET native_account_id == Decode("account_id", tx_idxdb.account_id)
        block_num == ParseU32(tx_idxdb.block_num)
        commit_height ==
            IF tx_idxdb.commit_height = None THEN OkOf(None)
            ELSE LET height == ParseU32(tx_idxdb.commit_height[1])
                 IN IF height.kind = "Err" THEN Err ELSE OkOf(Some(height.val[1]))
        id == Decode("digest", tx_idxdb.id)
        init_account_state == Decode("digest", tx_idxdb.init_account_state)
        final_account_state == Decode("digest", tx_idxdb.final_account_state)
        input_note_nullifiers == Decode("nullifiers", tx_idxdb.input_notes)
        output_notes == Decode("output_notes", tx_idxdb.output_notes)
        transaction_script == TransactionScriptOf(tx_idxdb)
    IN IF native_account_id.kind = "Err" THEN Err
       ELSE IF block_num.kind = "Err" THEN Panic
       ELSE IF commit_height.kind = "Err" THEN Panic
       ELSE IF id.kind = "Err" THEN Err
       ELSE IF init_account_state.kind = "Err" THEN Err
       ELSE IF final_account_state.kind = "Err" THEN Err
       ELSE IF input_note_nullifiers.kind = "Err" THEN Err
       ELSE IF output_notes.kind = "Err" THEN Err
       ELSE IF transaction_script.kind # "Ok" THEN transaction_script
       ELSE OkOf([id |-> id.val[1],
                  account_id |-> native_account_id.val[1],
                  init_account_state |-> init_account_state.val[1],
                  final_account_state |-> final_account_state.val[1],
                  input_note_nullifiers |-> input_note_nullifiers.val[1],
                  output_notes |-> output_notes.val[1],
                  transaction_script |-> transaction_script.val[1],
                  block_num |-> block_num.val[1],
                  transaction_status |->
                      TransactionStatusOf(commit_height.val[1], tx_idxdb.discarded)])

RECURSIVE Collect_skip_failed(_, _)
\* a filter_map: rows that fail to reconstruct are left out
Collect_skip_failed(rows, records) ==
    IF rows = <<>> THEN [kind |-> "Ok", val |-> records]
    ELSE LET record == Reconstruct(Head(rows))
         IN IF record.kind # "Ok" THEN Collect_skip_failed(Tail(rows), records)
            ELSE Collect_skip_failed(Tail(rows), Append(records, record.val[1]))

RECURSIVE Collect(_, _)
\* .map(..).collect::<Result<Vec<_>, _>>(): rows are reconstructed one by one,
\* in order, and the first row that fails ends the pass
Collect(rows, records) ==
    IF rows = <<>> THEN [kind |-> "Ok", val |-> records]
    ELSE LET record == Reconstruct(Head(rows))
         IN IF record.kind # "Ok" THEN record
            ELSE Collect(Tail(rows), Append(records, record.val[1]))

\* serde_wasm_bindgen::from_value::<Vec<TransactionIdxdbObject>>
from_value(js) == IF js.is_rows THEN OkOf(js.rows) ELSE Err

\* ------------------------------------------------------------------------
\* get_transactions: inputs
\* ------------------------------------------------------------------------
TransactionIds == {<<10>>, <<171>>, <<16>>}
BlockNumbers == {0, 7, 105, 2147483647}

All == [variant |-> "All", ids |-> <<>>, block_number |-> 0]
Uncomitted == [variant |-> "Uncomitted", ids |-> <<>>, block_number |-> 0]
Ids(ids) == [variant |-> "Ids", ids |-> ids, block_number |-> 0]
ExpiredBefore(h) == [variant |-> "ExpiredBefore", ids |-> <<>>, block_number |-> h]

IdLists == UNION {[1..n -> TransactionIds] : n \in 0..MaxIds}
TransactionFilters ==
    {All, Uncomitted} \cup {Ids(ids) : ids \in IdLists}
    \cup {ExpiredBefore(h) : h \in BlockNumbers}

BaseRow ==
    [account_id |-> "0xa11ce",
     block_num |-> <<"1", "0", "0">>,
     commit_height |-> None,
     id |-> "0xd16e57",
     init_account_state |-> "0xd16e57",
     final_account_state |-> "0xd16e57",
     input_notes |-> "nullifier_bytes",
     output_notes |-> "output_note_bytes",
     script_root |-> None,
     tx_script |-> None,
     discarded |-> FALSE]

AllRows ==
    [account_id : {"0xa11ce", "a11ce"},
     block_num : {<<"1", "0", "0">>, <<"1", "x">>},
     commit_height : {None, Some(<<"1", "0", "5">>), Some(<<"4", "2", "9", "4", "9", "6", "7", "2", "9", "6">>)},
     id : {"0xd16e57", "0xd1"},
     init_account_state : {"0xd16e57", "0xd1"},
     final_account_state : {"0xd16e57", "0xd1"},
     input_notes : {"nullifier_bytes", "truncated"},
     output_notes : {"output_note_bytes", "truncated"},
     script_root : {None, Some("0x5c")},
     tx_script : {None, Some("script_bytes"), Some("truncated")},
     discarded : BOOLEAN]

\* the number of fields in which a row differs from BaseRow
Deviations(row) == Cardinality({f \in DOMAIN BaseRow : row[f] # BaseRow[f]})

\* the rows that differ from BaseRow in exactly k fields (a UNION of
\* singletons, so that the set is enumerated once and kept)
RowsDeviating ==
    [k \in 0..MaxDeviations |->
        UNION {{row} : row \in {r \in AllRows : Deviations(r) = k}}]

RECURSIVE BatchesOf(_, _)
\* the batches of n rows that differ from BaseRow in at most d fields in all
BatchesOf(n, d) ==
    IF n = 0 THEN {<<>>}
    ELSE UNION {UNION {{Append(batch, row) : row \in RowsDeviating[k]} :
                       batch \in BatchesOf(n - 1, d - k)} : k \in 0..d}

Batches(d) == UNION {BatchesOf(n, d) : n \in 0..MaxRows}

\* what the promise can resolve to: a batch of rows, or a value that does
\* not deserialize into rows
JsValues(d) ==
    {[is_rows |-> TRUE, rows |-> batch] : batch \in Batches(d)}
    \cup {[is_rows |-> FALSE, rows |-> <<>>]}

\* ------------------------------------------------------------------------
\* get_transactions: the call
\* ------------------------------------------------------------------------
\* lines 36-50, up to the await of the promise
get_transactions ==
    /\ get_pc = "idle"
    /\ idxdb_calls' = Append(idxdb_calls, filter_as_str(filter))
    /\ get_pc' = "idxdb_get_transactions"
    /\ UNCHANGED <<filter, js_value, get_result>>
    /\ UNCHANGED apply_vars

\* lines 50-52: the promise is rejected
idxdb_get_transactions_rejected ==
    /\ get_pc = "idxdb_get_transactions"
    /\ get_result' = Err
    /\ get_pc' = "returned"
    /\ UNCHANGED <<filter, idxdb_calls, js_value>>
    /\ UNCHANGED apply_vars

\* lines 53-107: the promise resolves to one of js_values
idxdb_get_transactions_resolved(js_values) ==
    /\ get_pc = "idxdb_get_transactions"
    /\ \E js \in js_values :
        /\ js_value' = Some(js)
        /\ LET transactions_idxdb == from_value(js)
           IN get_result' = IF transactions_idxdb.kind = "Err" THEN Err
                            ELSE Collect(transactions_idxdb.val[1], <<>>)
    /\ get_pc' = IF get_result'.kind = "panic" THEN "panicked" ELSE "returned"
    /\ UNCHANGED <<filter, idxdb_calls>>
    /\ UNCHANGED apply_vars

InitGetIdle ==
    /\ get_pc = "idle"
    /\ idxdb_calls = <<>>
    /\ js_value = None
    /\ get_result = NoResult

InitApplyIdle ==
    /\ apply_pc = "idle"
    /\ tag_idx = 0
    /\ calls = <<>>
    /\ acks = <<>>
    /\ apply_result = NoResult

Init ==
    /\ tx_update \in TransactionStoreUpdates
    /\ InitApplyIdle
    /\ filter = All
    /\ InitGetIdle

Next ==
    \/ apply_transaction
    \/ insert_proven_transaction_data_ok
    \/ insert_proven_transaction_data_err
    \/ update_account_ok
    \/ update_account_err
    \/ apply_note_updates_tx_ok
    \/ apply_note_updates_tx_err
    \/ add_note_tag_ok
    \/ add_note_tag_err

Spec == Init /\ [][Next]_vars

\* get_transactions alone, over the row batches
InitGet ==
    /\ tx_update \in {u \in TransactionStoreUpdates : u.new_tags = <<>>}
    /\ InitApplyIdle
    /\ filter = All
    /\ InitGetIdle

NextGet ==
    \/ get_transactions
    \/ idxdb_get_transactions_rejected
    \/ idxdb_get_transactions_resolved(JsValues(MaxDeviations))

SpecGet == InitGet /\ [][NextGet]_vars

\* get_transactions alone, over the filters
InitEncode ==
    /\ tx_update \in {u \in TransactionStoreUpdates : u.new_tags = <<>>}
    /\ InitApplyIdle
    /\ filter \in TransactionFilters
    /\ InitGetIdle

NextEncode ==
    \/ get_transactions
    \/ idxdb_get_transactions_rejected
    \/ idxdb_get_transactions_resolved(JsValues(0))

SpecEncode == InitEncode /\ [][NextEncode]_vars

\* ------------------------------------------------------------------------
\* Properties of apply_transaction
\* ------------------------------------------------------------------------
IsPrefix(s, t) == Len(s) <= Len(t) /\ \A i \in 1..Len(s) : s[i] = t[i]

\* the four writes of §4.3 for the update at hand, in their fixed order
ExpectedCalls ==
    <<Call("insert_proven_transaction_data", tx_update.executed_transaction),
      Call("update_account", tx_update.updated_account),
      Call("apply_note_updates_tx", tx_update.note_updates)>>
    \o [i \in 1..Len(tx_update.new_tags) |->
           Call("add_note_tag", tx_update.new_tags[i])]

RECURSIVE Acknowledged(_)
\* the first n calls that their collaborator acknowledged as successful
Acknowledged(n) ==
    IF n = 0 THEN <<>>
    ELSE IF acks[n] = "Ok" THEN Append(Acknowledged(n - 1), calls[n])
    ELSE Acknowledged(n - 1)

\* the writes durably applied so far
Applied == Acknowledged(Len(acks))

\* C1: the writes are issued in the fixed order transaction data, account,
\* note updates, tags, and a step is issued only when every step before it
\* has been acknowledged as successful.
C1_FixedOrderAwaited ==
    /\ IsPrefix(calls, ExpectedCalls)
    /\ Len(acks) <= Len(calls)
    /\ Len(calls) <= Len(acks) + 1
    /\ \A k \in 1..(Len(calls) - 1) : acks[k] = "Ok"

C1_Witness ==
    /\ apply_pc = "add_note_tag"
    /\ tag_idx = 2
    /\ Len(calls) = 5
    /\ acks = <<"Ok", "Ok", "Ok", "Ok">>

\* C2: when the collaborator of a step (or of a tag registration) fails,
\* apply_transaction returns that error, the steps before it stay applied
\* and no further call is issued.
C2_FailFastNoRollback ==
    \A k \in 1..Len(acks) :
        acks[k] = "Err" =>
            /\ apply_result = Err
            /\ apply_pc = "returned"
            /\ Len(calls) = k
            /\ Len(acks) = k
            /\ Applied = SubSeq(ExpectedCalls, 1, k - 1)

C2_Witness ==
    /\ acks = <<"Ok", "Ok", "Ok", "Ok", "Err">>
    /\ apply_result = Err
    /\ Len(Applied) = 4

\* C3 as stated: in every observable state either all of the update's
\* sub-writes are applied or none of them is.
C3_AllOrNothing == Applied = <<>> \/ Applied = ExpectedCalls

\* C3 amended: the applied sub-writes are always a prefix of the fixed
\* order; the prefix is the whole sequence once the call returned Ok and a
\* proper prefix once it returned an error.
C3_AppliedPrefix ==
    /\ IsPrefix(Applied, ExpectedCalls)
    /\ apply_result.kind = "Ok" => Applied = ExpectedCalls
    /\ apply_result.kind = "Err" => Len(Applied) < Len(ExpectedCalls)

C3_Witness ==
    /\ apply_result = Err
    /\ Len(Applied) = 2
    /\ Applied[2].op = "update_account"

CallsOf(op) == {k \in 1..Len(calls) : calls[k].op = op}

\* C9: a successful apply_transaction has performed each of the first three
\* steps exactly once and one tag registration per entry of the tag list, in
\* list order; none when the list is empty.
C9_StepsExactlyOnce ==
    apply_result.kind = "Ok" =>
        /\ CallsOf("insert_proven_transaction_data") = {1}
        /\ CallsOf("update_account") = {2}
        /\ CallsOf("apply_note_updates_tx") = {3}
        /\ CallsOf("add_note_tag") = {3 + i : i \in 1..Len(tx_update.new_tags)}
        /\ \A i \in 1..Len(tx_update.new_tags) :
               calls[3 + i].arg = tx_update.new_tags[i]
        /\ Len(calls) = 3 + Len(tx_update.new_tags)
        /\ acks = [k \in 1..Len(calls) |-> "Ok"]

C9_Witness ==
    /\ apply_result.kind = "Ok"
    /\ Len(tx_update.new_tags) = 2
    /\ tx_update.new_tags[1] # tx_update.new_tags[2]
    /\ Len(calls) = 5

\* ------------------------------------------------------------------------
\* Properties of get_transactions
\* ------------------------------------------------------------------------
\* the scan answered with a deserializable batch of rows
ScanReturnedRows ==
    get_pc \in {"returned", "panicked"} /\ js_value # None /\ js_value[1].is_rows
ScannedRows == js_value[1].rows

T100 == <<"1", "0", "0">>
T105 == <<"1", "0", "5">>

\* C4: transaction_status is decided by (commit_height, discarded) alone:
\* Discarded when the flag is set, with or without a commit height;
\* Committed(h) with h the row's commit height, not its block_num, when the
\* flag is clear; Pending when the flag is clear and no height is recorded,
\* which is not a failure.
C4_StatusByPriority ==
    ScanReturnedRows =>
        /\ get_result.kind = "Ok" =>
              \A i \in 1..Len(ScannedRows) :
                  LET row == ScannedRows[i]
                      status == get_result.val[i].transaction_status
                  IN /\ row.discarded =>
                            status = [variant |-> "Discarded", height |-> None]
                     /\ ~row.discarded /\ row.commit_height = Some(T105) =>
                            /\ status = [variant |-> "Committed", height |-> Some(105)]
                            /\ status.height # Some(get_result.val[i].block_num)
                     /\ ~row.discarded /\ row.commit_height = None =>
                            status = [variant |-> "Pending", height |-> None]
        /\ (\A i \in 1..Len(ScannedRows) : ScannedRows[i] = BaseRow) =>
              get_result.kind = "Ok"

C4_Witness ==
    /\ ScanReturnedRows
    /\ get_result.kind = "Ok"
    /\ Len(ScannedRows) = 2
    /\ ScannedRows[1].discarded /\ ScannedRows[1].commit_height = Some(T105)
    /\ ~ScannedRows[2].discarded /\ ScannedRows[2].commit_height = None
    /\ get_result.val[1].transaction_status.variant = "Discarded"
    /\ get_result.val[2].transaction_status.variant = "Pending"

\* a row that carries one of the failure causes of §7
RowFailureCause(row) ==
    \/ row.account_id \notin WellFormed.account_id
    \/ ParseU32(row.block_num).kind = "Err"
    \/ row.commit_height # None /\ ParseU32(row.commit_height[1]).kind = "Err"
    \/ row.id \notin WellFormed.digest
    \/ row.init_account_state \notin WellFormed.digest
    \/ row.final_account_state \notin WellFormed.digest
    \/ row.input_notes \notin WellFormed.nullifiers
    \/ row.output_notes \notin WellFormed.output_notes
    \/ row.script_root # None /\ row.tx_script = None
    \/ row.script_root # None /\ row.tx_script # None
       /\ row.tx_script[1] \notin WellFormed.script

\* the scan failed, or its answer holds a row with a failure cause
GetFailureCause ==
    \/ js_value = None
    \/ ~js_value[1].is_rows
    \/ \E i \in 1..Len(ScannedRows) : RowFailureCause(ScannedRows[i])

\* C5: every failure ends the call by returning Err(StoreError); the call
\* never returns Ok on a failure and never ends without returning a result.
C5_ErrorsReturned ==
    /\ get_pc # "panicked"
    /\ get_pc = "returned" => get_result.kind \in {"Ok", "Err"}
    /\ (get_pc = "returned" /\ GetFailureCause) => get_result = Err
    /\ apply_pc = "returned" => apply_result.kind \in {"Ok", "Err"}

\* C6: a row with a script root and no script bytes makes the call fail; no
\* record with transaction_script = None is returned for it.
C6_MissingScriptFails ==
    ScanReturnedRows =>
        \A i \in 1..Len(ScannedRows) :
            ScannedRows[i].script_root # None /\ ScannedRows[i].tx_script = None
            => /\ get_result.kind # "Ok"
               /\ get_result.val = <<>>

C6_Witness ==
    /\ ScanReturnedRows
    /\ Len(ScannedRows) = 2
    /\ ScannedRows[1] = BaseRow
    /\ ScannedRows[2] = [BaseRow EXCEPT !.script_root = Some("0x5c")]
    /\ get_result.kind # "Ok"

\* C7: the call returns Ok exactly when every scanned row reconstructs, and
\* then record i is the record of row i; when a row fails, no record at all
\* is returned.
C7_AllOrNothingBatch ==
    ScanReturnedRows =>
        /\ get_result.kind = "Ok" <=>
              \A i \in 1..Len(ScannedRows) : Reconstruct(ScannedRows[i]).kind = "Ok"
        /\ get_result.kind = "Ok" =>
              /\ Len(get_result.val) = Len(ScannedRows)
              /\ \A i \in 1..Len(ScannedRows) :
                     get_result.val[i] = Reconstruct(ScannedRows[i]).val[1]
        /\ get_result.kind # "Ok" => get_result.val = <<>>

C7_Witness ==
    /\ ScanReturnedRows
    /\ get_result.kind = "Ok"
    /\ Len(get_result.val) = 2
    /\ get_result.val[1].transaction_status.variant = "Committed"
    /\ get_result.val[2].transaction_status.variant = "Pending"

ExpectedIdText(id) ==
    CASE id = <<10>> -> <<"0", "x", "0", "a">>
      [] id = <<171>> -> <<"0", "x", "a", "b">>
      [] id = <<16>> -> <<"0", "x", "1", "0">>

ExpectedHeightText(h) ==
    CASE h = 0 -> <<"0">>
      [] h = 7 -> <<"7">>
      [] h = 105 -> T105
      [] h = 2147483647 -> <<"2", "1", "4", "7", "4", "8", "3", "6", "4", "7">>

\* C8: exactly one scan is issued per call, with the token of the filter:
\* "All", "Uncomitted", "Ids:" and the id texts in the caller's order joined
\* by commas, "ExpiredPending:" and the decimal text of the height.
C8_FilterToken ==
    /\ get_pc = "idle" => idxdb_calls = <<>>
    /\ get_pc # "idle" =>
          /\ Len(idxdb_calls) = 1
          /\ LET token == idxdb_calls[1]
                 n == Len(filter.ids)
                 body == SubSeq(token, 5, Len(token))
             IN CASE filter.variant = "All" -> token = <<"A", "l", "l">>
                  [] filter.variant = "Uncomitted" ->
                        token = <<"U", "n", "c", "o", "m", "i", "t", "t", "e", "d">>
                  [] filter.variant = "Ids" ->
                        /\ SubSeq(token, 1, 4) = <<"I", "d", "s", ":">>
                        /\ Len(body) = IF n = 0 THEN 0 ELSE 5 * n - 1
                        /\ \A i \in 1..n :
                               SubSeq(body, 5 * i - 4, 5 * i - 1)
                                   = ExpectedIdText(filter.ids[i])
                        /\ \A i \in 1..(n - 1) : body[5 * i] = ","
                  [] filter.variant = "ExpiredBefore" ->
                        token = <<"E", "x", "p", "i", "r", "e", "d", "P", "e", "n",
                                  "d", "i", "n", "g", ":">>
                                \o ExpectedHeightText(filter.block_number)

C8_Witness ==
    /\ get_pc = "idxdb_get_transactions"
    /\ filter.variant = "Ids"
    /\ Len(filter.ids) = 2
    /\ filter.ids[1] # filter.ids[2]
    /\ Len(idxdb_calls) = 1
    /\ Len(idxdb_calls[1]) = 13

\* C10: a row without a script root yields transaction_script = None, and
\* its script-bytes field is not looked at: present or malformed bytes change
\* nothing in the outcome of the call.
C10_ScriptOnlyWithRoot ==
    ScanReturnedRows =>
        LET rootless == {i \in 1..Len(ScannedRows) : ScannedRows[i].script_root = None}
            without_bytes == [i \in 1..Len(ScannedRows) |->
                                 IF i \in rootless
                                 THEN [ScannedRows[i] EXCEPT !.tx_script = None]
                                 ELSE ScannedRows[i]]
        IN /\ get_result.kind = "Ok" =>
                 \A i \in rootless : get_result.val[i].transaction_script = None
           /\ get_result = Collect(without_bytes, <<>>)

C10_Witness ==
    /\ ScanReturnedRows
    /\ get_result.kind = "Ok"
    /\ Len(ScannedRows) = 2
    /\ ScannedRows[1].script_root = None
    /\ ScannedRows[1].tx_script = Some("truncated")
    /\ ScannedRows[2].script_root = None
    /\ ScannedRows[2].tx_script = Some("script_bytes")
    /\ get_result.val[1].transaction_script = None
====
